---- MODULE Spec2Model ----
(***************************************************************************)
(* Model of the QA automation service: the scenario execution engine       *)
(* (automation-service: executeScenario, normalizeColorValue, runTests)    *)
(* and the POST /api/test handler of server.ts that calls it.              *)
(*                                                                         *)
(* JavaScript strings are modelled as sequences of one-character strings,  *)
(* so that toLowerCase, trim, the regular expressions and the template     *)
(* literals of the source are computed character by character.             *)
(* An optional field (error?: string) is <<>> when undefined and <<s>>     *)
(* when it holds the string s.                                             *)
(***************************************************************************)
EXTENDS Integers, Sequences, FiniteSets, TLC

\* ------------------------------------------------------------------------
\* Characters and the string primitives of the JavaScript runtime
\* ------------------------------------------------------------------------

UpperSeq == <<"A","B","C","D","E","F","G","H","I","J","K","L","M",
              "N","O","P","Q","R","S","T","U","V","W","X","Y","Z">>

LowerSeq == <<"a","b","c","d","e","f","g","h","i","j","k","l","m",
              "n","o","p","q","r","s","t","u","v","w","x","y","z">>

DigitSeq == <<"0","1","2","3","4","5","6","7","8","9">>

HexSeq == <<"0","1","2","3","4","5","6","7","8","9","a","b","c","d","e","f">>

Range(seq) == {seq[i] : i \in 1..Len(seq)}

IndexIn(seq, c) ==
  LET is == {i \in 1..Len(seq) : seq[i] = c}
  IN  IF is = {} THEN 0 ELSE CHOOSE i \in is : TRUE

\* the characters trim() strips, and \s of the regular expressions
WhiteSpace == {" ", "\t", "\n"}

ToLowerChar(c) ==
  LET i == IndexIn(UpperSeq, c)
  IN  IF i = 0 THEN c ELSE LowerSeq[i]

\* String.prototype.toLowerCase
toLowerCase(s) == [i \in 1..Len(s) |-> ToLowerChar(s[i])]

\* String.prototype.trim
trim(s) ==
  LET keep == {i \in 1..Len(s) : s[i] \notin WhiteSpace}
  IN  IF keep = {} THEN <<>>
      ELSE SubSeq(s, CHOOSE i \in keep : \A j \in keep : i <= j,
                     CHOOSE i \in keep : \A j \in keep : j <= i)

\* the literal lit stands in s at position p; ci: under the i flag
LitAt(s, p, lit, ci) ==
  /\ p >= 1
  /\ p + Len(lit) - 1 <= Len(s)
  /\ LET part == SubSeq(s, p, p + Len(lit) - 1)
     IN  IF ci THEN toLowerCase(part) = toLowerCase(lit) ELSE part = lit

\* s.startsWith(prefix)
startsWith(s, prefix) == LitAt(s, 1, prefix, FALSE)

\* s.includes(sub)
includes(s, sub) == \E p \in 1..(Len(s) + 1) : LitAt(s, p, sub, FALSE)

\* decimal digits of a natural number, as String(n) prints them
RECURSIVE NatToStr(_)
NatToStr(n) ==
  IF n < 10 THEN <<DigitSeq[n + 1]>>
  ELSE NatToStr(n \div 10) \o <<DigitSeq[(n % 10) + 1]>>

\* ------------------------------------------------------------------------
\* Regular expressions, matched the way the JavaScript engine matches them:
\* leftmost, each quantifier trying its counts in its order of preference
\* (greedy: most first, lazy: least first), the alternatives of a group in
\* the order written.  An expression is a sequence of items; an item is a
\* choice between literals, or a repeated character class.
\* ------------------------------------------------------------------------

\* character classes: the characters in `set`, or all the others
Class(set) == [in |-> TRUE, set |-> set]

ClassNot(set) == [in |-> FALSE, set |-> set]

\* \d
ReDigit == Class(Range(DigitSeq))

\* \s
ReSpace == Class(WhiteSpace)

\* .
ReDot == ClassNot({"\n"})

\* (?:a|b|...): one of the literals of alts
Alt(alts) ==
  [alts |-> alts, cls |-> Class({}), min |-> 0, many |-> FALSE, greedy |-> TRUE, cap |-> 0]

\* a literal
Lit(s) == Alt(<<s>>)

\* cls repeated at least min times, once at most unless many; cap # 0
\* numbers the group that captures the repetition
Rep(cls, min, many, greedy, cap) ==
  [alts |-> <<>>, cls |-> cls, min |-> min, many |-> many, greedy |-> greedy, cap |-> cap]

\* cls+, cls*, cls?
Plus(cls) == Rep(cls, 1, TRUE, TRUE, 0)

Star(cls) == Rep(cls, 0, TRUE, TRUE, 0)

Opt(cls) == Rep(cls, 0, FALSE, TRUE, 0)

\* (cls+) as group cap
Group(cls, cap) == Rep(cls, 1, TRUE, TRUE, cap)

\* length of the longest run, of at most max characters of class cls, that
\* starts at position p of s
RunLen(s, p, cls, max) ==
  CHOOSE k \in { CHOOSE k \in ks : \A m \in ks : m <= k :
                 ks \in {{k \in 0..max : /\ p + k - 1 <= Len(s)
                                         /\ \A j \in 0..(k - 1) : (s[p + j] \in cls.set) = cls.in}} } : TRUE

\* the try preferred among tries, a set of <<choice, outcome>>: the least
\* choice (the greatest when `most`) whose outcome is a match; <<>> when no
\* outcome is
Preferred(tries, most) ==
  CHOOSE best \in
    { IF good = {} THEN <<>>
      ELSE CHOOSE t \in good :
             \A u \in good : IF most THEN u[1] <= t[1] ELSE t[1] <= u[1] :
      good \in {{t \in tries : t[2] # <<>>}} } : TRUE

\* the outcome of a try, <<>> for none
Outcome(try) ==
  CHOOSE o \in {IF t = <<>> THEN <<>> ELSE t[2] : t \in {try}} : TRUE

\* the items k.. of re matched at position pos of s, with the groups
\* captured so far in caps: <<first position after the match, groups>> for
\* the first way to match the engine finds, <<>> when there is none
RECURSIVE MatchFrom(_, _, _, _, _, _)
MatchFrom(re, ci, k, s, pos, caps) ==
  IF k > Len(re) THEN <<pos, caps>>
  ELSE
    LET item  == re[k]
        isAlt == item.alts # <<>>
        \* the ways to match the item: the alternative c, or c repetitions
        ways  == IF isAlt
                   THEN {c \in 1..Len(item.alts) : LitAt(s, pos, item.alts[c], ci)}
                   ELSE item.min..RunLen(s, pos, item.cls, IF item.many THEN Len(s) ELSE 1)
        step(c) == IF isAlt THEN Len(item.alts[c]) ELSE c
    IN  Outcome(Preferred(
          { << to[1], MatchFrom(re, ci, k + 1, s, to[2], to[3]) >> :
            to \in { << c, pos + step(c),
                        IF item.cap = 0 THEN caps
                        ELSE [caps EXCEPT ![item.cap] = SubSeq(s, pos, pos + c - 1)] >> :
                      c \in ways } },
          ~isAlt /\ item.greedy))

\* <<position of the match, first position after it, groups>> for the
\* preferred try <<position, <<first position after, groups>>>>
Located(try) ==
  CHOOSE m \in {IF t = <<>> THEN <<>> ELSE <<t[1], t[2][1], t[2][2]>> : t \in {try}} : TRUE

\* s.match(re): <<position of the match, first position after it, groups>>
\* of the leftmost match, <<>> for null
Match(re, ci, groups, s) ==
  Located(Preferred({ << p, MatchFrom(re, ci, 1, s, p, [g \in 1..groups |-> <<>>]) >> :
                      p \in 1..(Len(s) + 1) }, FALSE))

\* s with the match m replaced by its group 1
Spliced(s, m) ==
  CHOOSE t \in { IF x = <<>> THEN s
                 ELSE SubSeq(s, 1, x[1] - 1) \o x[3][1] \o SubSeq(s, x[2], Len(s)) :
                 x \in {m} } : TRUE

\* s.replace(re, "$1")
ReplaceByGroup1(re, ci, s) == Spliced(s, Match(re, ci, 1, s))

\* ------------------------------------------------------------------------
\* normalizeColorValue (ValueNormalizer)
\* ------------------------------------------------------------------------

\* the template literal `rgb(${a}, ${b}, ${c})`
RgbString(a, b, c) ==
  <<"r","g","b","(">> \o a \o <<",", " ">> \o b \o <<",", " ">> \o c \o <<")">>

\* an entry of colorMap, name: "rgb(r, g, b)"
Named(name, r, g, b) == <<name, RgbString(NatToStr(r), NatToStr(g), NatToStr(b))>>

\* the lookup table of named colours
colorMap ==
  { Named(<<"y","e","l","l","o","w">>, 255, 255, 0),
    Named(<<"b","l","u","e">>, 0, 0, 255),
    Named(<<"r","e","d">>, 255, 0, 0),
    Named(<<"g","r","e","e","n">>, 0, 128, 0),
    Named(<<"w","h","i","t","e">>, 255, 255, 255),
    Named(<<"b","l","a","c","k">>, 0, 0, 0),
    Named(<<"g","r","a","y">>, 128, 128, 128),
    Named(<<"g","r","e","y">>, 128, 128, 128),
    Named(<<"o","r","a","n","g","e">>, 255, 165, 0),
    Named(<<"p","u","r","p","l","e">>, 128, 0, 128),
    Named(<<"p","i","n","k">>, 255, 192, 203),
    Named(<<"b","r","o","w","n">>, 165, 42, 42),
    Named(<<"c","y","a","n">>, 0, 255, 255),
    Named(<<"m","a","g","e","n","t","a">>, 255, 0, 255) }

\* /rgba?\((\d+),\s*(\d+),\s*(\d+)/
ReRgba ==
  << Lit(<<"r","g","b">>), Opt(Class({"a"})), Lit(<<"(">>),
     Group(ReDigit, 1), Lit(<<",">>), Star(ReSpace),
     Group(ReDigit, 2), Lit(<<",">>), Star(ReSpace),
     Group(ReDigit, 3) >>

\* /rgb\((\d+),?\s*(\d+),?\s*(\d+)\)/
ReRgb ==
  << Lit(<<"r","g","b","(">>),
     Group(ReDigit, 1), Opt(Class({","})), Star(ReSpace),
     Group(ReDigit, 2), Opt(Class({","})), Star(ReSpace),
     Group(ReDigit, 3), Lit(<<")">>) >>

\* value of a hexadecimal digit, -1 for any other character
HexVal(c) == IndexIn(HexSeq, ToLowerChar(c)) - 1

\* `${parseInt(x, 16)}` for a string x of two characters: leading white
\* space and a sign are skipped, the longest prefix of hexadecimal digits is
\* read, and no digit at all gives NaN
ParseIntHexString(x) ==
  LET NaN == <<"N","a","N">>
      h1  == HexVal(x[1])
      h2  == HexVal(x[2])
  IN  IF x[1] \in WhiteSpace \cup {"+"}
        THEN IF h2 >= 0 THEN NatToStr(h2) ELSE NaN
      ELSE IF x[1] = "-"
        THEN IF h2 > 0 THEN <<"-">> \o NatToStr(h2)
             ELSE IF h2 = 0 THEN <<"0">>
             ELSE NaN
      ELSE IF h1 < 0 \/ x = <<"0", "x">> THEN NaN
      ELSE IF h2 >= 0 THEN NatToStr(16 * h1 + h2)
      ELSE NatToStr(h1)

\* the hex branch without the case of three digits
HexToRgbSixOnly(lowerColor) ==
  IF Len(lowerColor) = 7
    THEN RgbString(ParseIntHexString(SubSeq(lowerColor, 2, 3)),
                   ParseIntHexString(SubSeq(lowerColor, 4, 5)),
                   ParseIntHexString(SubSeq(lowerColor, 6, 7)))
    ELSE lowerColor

\* the branch of normalizeColorValue for a value that starts with "#"
HexToRgb(lowerColor) ==
  LET hex == Tail(lowerColor)
      two == IF Len(hex) = 3
               THEN <<hex[1], hex[1], hex[2], hex[2], hex[3], hex[3]>>
               ELSE hex
  IN  IF Len(hex) \in {3, 6}
        THEN RgbString(ParseIntHexString(SubSeq(two, 1, 2)),
                       ParseIntHexString(SubSeq(two, 3, 4)),
                       ParseIntHexString(SubSeq(two, 5, 6)))
        ELSE lowerColor

\* the returns of normalizeColorValue, for the entries `named` of colorMap
\* under lowerColor and the matches rgba and rgb of the two expressions
Canonical(lowerColor, named, rgba, rgb) ==
  IF named # {} THEN (CHOOSE e \in named : TRUE)[2]
  ELSE IF rgba # <<>> THEN RgbString(rgba[3][1], rgba[3][2], rgba[3][3])
  ELSE IF rgb # <<>> THEN RgbString(rgb[3][1], rgb[3][2], rgb[3][3])
  ELSE IF startsWith(lowerColor, <<"#">>) THEN HexToRgb(lowerColor)
  ELSE lowerColor

\* normalizeColorValue from its second line on
NormalizeLower(lowerColor) ==
  Canonical(lowerColor,
            {e \in colorMap : e[1] = lowerColor},
            IF startsWith(lowerColor, <<"r","g","b","a">>)
              THEN Match(ReRgba, FALSE, 3, lowerColor) ELSE <<>>,
            IF startsWith(lowerColor, <<"r","g","b">>)
              THEN Match(ReRgb, FALSE, 3, lowerColor) ELSE <<>>)

normalizeColorValue(color) == NormalizeLower(trim(toLowerCase(color)))

\* ------------------------------------------------------------------------
\* ExpectationParser: the expressions of the handlers
\* ------------------------------------------------------------------------

\* [a-z-] under the i flag
RePropChar == Class(Range(LowerSeq) \cup Range(UpperSeq) \cup {"-"})

\* /([a-z-]+)\s+should\s+be\s+(.+)/i
ReStyle ==
  << Group(RePropChar, 1), Plus(ReSpace), Lit(<<"s","h","o","u","l","d">>), Plus(ReSpace),
     Lit(<<"b","e">>), Plus(ReSpace), Group(ReDot, 2) >>

\* the groups of the match m, <<>> for null
Groups(m) == CHOOSE g \in {IF x = <<>> THEN <<>> ELSE x[3] : x \in {m}} : TRUE

\* expectedResult.match(/([a-z-]+)\s+should\s+be\s+(.+)/i):
\* <<property, expectedValue>>, <<>> for null
StyleMatch(expectedResult) == Groups(Match(ReStyle, TRUE, 2, expectedResult))

\* "?(.+?)"? : the tail of the replace expressions
ReQuoted ==
  << Opt(Class({"\""})), Rep(ReDot, 1, TRUE, FALSE, 1), Opt(Class({"\""})) >>

\* /text should (?:contain|be) "?(.+?)"?/i
ReText ==
  << Lit(<<"t","e","x","t"," ","s","h","o","u","l","d"," ">>), Alt(<<<<"c","o","n","t","a","i","n">>, <<"b","e">>>>), Lit(<<" ">>) >> \o ReQuoted

\* /fill with "?(.+?)"?/i
ReFill == << Lit(<<"f","i","l","l"," ","w","i","t","h"," ">>) >> \o ReQuoted

\* /navigate to "?(.+?)"?/i
ReNavigate == << Lit(<<"n","a","v","i","g","a","t","e"," ","t","o"," ">>) >> \o ReQuoted

\* expectedResult.replace(/text should (?:contain|be) "?(.+?)"?/i, "$1")
ExpectedText(expectedResult) == ReplaceByGroup1(ReText, TRUE, expectedResult)

\* expectedResult.replace(/fill with "?(.+?)"?/i, "$1")
FillValue(expectedResult) == ReplaceByGroup1(ReFill, TRUE, expectedResult)

\* expectedResult.replace(/navigate to "?(.+?)"?/i, "$1")
NavigateUrl(expectedResult) == ReplaceByGroup1(ReNavigate, TRUE, expectedResult)

\* ------------------------------------------------------------------------
\* extractJiraTicketId (jira-service)
\* ------------------------------------------------------------------------

\* /([A-Z]{2,}-\d+)/
ReTicket ==
  << Rep(Class(Range(UpperSeq)), 2, TRUE, TRUE, 0), Lit(<<"-">>), Plus(ReDigit) >>

\* the text of s the match m covers, <<>> for null
Matched(s, m) ==
  CHOOSE t \in {IF x = <<>> THEN <<>> ELSE SubSeq(s, x[1], x[2] - 1) : x \in {m}} : TRUE

\* input.match(regex): group 1 of the match, <<>> for null
extractJiraTicketId(ticketInput) == Matched(ticketInput, Match(ReTicket, FALSE, 0, ticketInput))

\* ------------------------------------------------------------------------
\* Diagnostics built by executeScenario and runTests
\* ------------------------------------------------------------------------

\* `Element "${target}" not found`
MsgNotFound(target) ==
  <<"E","l","e","m","e","n","t"," ","\"">> \o target \o <<"\""," ","n","o","t"," ","f","o","u","n","d">>

\* `Could not parse expected result format. Use: "property-name should be value"`
MsgParseStyle ==
  <<"C","o","u","l","d"," ","n","o","t"," ","p","a","r","s","e"," ",
    "e","x","p","e","c","t","e","d"," ","r","e","s","u","l","t"," ",
    "f","o","r","m","a","t","."," ","U","s","e",":"," ","\"","p","r",
    "o","p","e","r","t","y","-","n","a","m","e"," ","s","h","o","u",
    "l","d"," ","b","e"," ","v","a","l","u","e","\"">>

\* `Unknown action: ${action}`
MsgUnknown(action) ==
  <<"U","n","k","n","o","w","n"," ","a","c","t","i","o","n",":"," ">> \o action

\* `Expected ${property} to be "${expectedValue}", but got "${actualValue}"`
MsgStyle(property, expectedValue, actualValue) ==
  <<"E","x","p","e","c","t","e","d"," ">> \o property \o <<" ","t","o"," ","b","e"," ","\"">> \o expectedValue
    \o <<"\"",","," ","b","u","t"," ","g","o","t"," ","\"">> \o actualValue \o <<"\"">>

\* `Expected text to contain "${expectedText}", but got "${actualText}"`
MsgText(expectedText, actualText) ==
  <<"E","x","p","e","c","t","e","d"," ","t","e","x","t"," ","t","o"," ","c","o","n","t","a","i","n"," ","\"">> \o expectedText
    \o <<"\"",","," ","b","u","t"," ","g","o","t"," ","\"">> \o actualText \o <<"\"">>

\* `Expected element to be ${shouldBeVisible ? "visible" : "hidden"}`
MsgVisibility(shouldBeVisible) ==
  <<"E","x","p","e","c","t","e","d"," ","e","l","e","m","e","n","t"," ","t","o"," ","b","e"," ">> \o (IF shouldBeVisible THEN <<"v","i","s","i","b","l","e">> ELSE <<"h","i","d","d","e","n">>)

\* `Browser automation failed: ${error.message}`
MsgFatal(message) ==
  <<"B","r","o","w","s","e","r"," ","a","u","t","o","m","a","t","i","o","n"," ","f","a","i","l","e","d",":"," ">> \o message

\* the keyword of the check_visibility handler
KwVisible == <<"v","i","s","i","b","l","e">>

\* actualValue of the check_visibility handler
StrVisible(isVisible) ==
  IF isVisible THEN <<"v","i","s","i","b","l","e">> ELSE <<"n","o","t"," ","v","i","s","i","b","l","e">>

\* the action names of the switch
A_check_style == <<"c","h","e","c","k","_","s","t","y","l","e">>

A_click == <<"c","l","i","c","k">>

A_check_text == <<"c","h","e","c","k","_","t","e","x","t">>

A_check_visibility == <<"c","h","e","c","k","_","v","i","s","i","b","i","l","i","t","y">>

A_navigate == <<"n","a","v","i","g","a","t","e">>

A_hover == <<"h","o","v","e","r">>

A_fill_input == <<"f","i","l","l","_","i","n","p","u","t">>

KnownActions ==
  {A_check_style, A_click, A_check_text, A_check_visibility, A_navigate, A_hover, A_fill_input}

\* ------------------------------------------------------------------------
\* Bounds and the inputs the model draws from
\* ------------------------------------------------------------------------

\* requests the server may be handling at once
NumRuns == 2

\* longest scenario list of a run of several scenarios
MaxScenarios == 3

Runs == 1..NumRuns

Browsers == 1..NumRuns

Scenario(action, target, expectedResult) ==
  [action |-> action, target |-> target, expectedResult |-> expectedResult,
   description |-> <<"t">>]

T_btn == <<"#","b","t","n">>

T_missing == <<"#","m","i","s","s","i","n","g">>

\* check_style expectations written as <property><verb><value>
StyleProps == {<<"b","a","c","k","g","r","o","u","n","d","-","c","o","l","o","r">>,
               <<"c","o","l","o","r">>}

StyleVerbs == {<<" ","s","h","o","u","l","d"," ","b","e"," ">>,
               <<" "," ","S","H","O","U","L","D","\t","B","e"," "," ">>}

StyleWanted == {<<"y","e","l","l","o","w">>, <<"#","F","F","0">>, <<"r","g","b","(","2","5","5",",","2","5","5",",","0",")">>,
                <<"1","2","p","x"," ">>}

StyleForm(p, verb, v) == p \o verb \o v

\* expectations that are not of the form <property> should be <value>
StyleMalformed == {<<"y","e","l","l","o","w"," ","b","a","c","k","g","r","o","u","n","d">>,
                   <<"s","h","o","u","l","d"," ","b","e"," ","r","e","d">>,
                   <<"c","o","l","o","r"," ","s","h","o","u","l","d"," ","n","o","t"," ","b","e"," ","r","e","d">>,
                   <<"c","o","l","o","r"," ","s","h","o","u","l","d","b","e"," ","r","e","d">>,
                   <<>>}

\* scenarios of the runs of several scenarios
RunPool ==
  { Scenario(<<"C","L","I","C","K">>, T_btn, <<>>),
    Scenario(<<"d","r","a","g","_","d","r","o","p">>, T_btn, <<>>),
    Scenario(A_check_visibility, T_missing, <<"e","l","e","m","e","n","t"," ","s","h","o","u","l","d"," ","b","e"," ","v","i","s","i","b","l","e">>),
    Scenario(A_navigate, <<>>, <<"n","a","v","i","g","a","t","e"," ","t","o"," ","\"","/","p","\"">>) }

\* the two verbs of the check_text pattern, in two spellings
TextVerbs == {<<"t","e","x","t"," ","s","h","o","u","l","d"," ","c","o","n","t","a","i","n"," ">>,
              <<"T","e","x","t"," ","S","h","o","u","l","d"," ","B","E"," ">>}

\* literals a check_text expectation asks for
TextWanted == {<<"H","i">>, <<"H">>}

\* text should contain "V", text should be "V"
TextForm(verb, v) == verb \o <<"\"">> \o v \o <<"\"">>

\* values of a fill_input expectation
FillWanted == {<<"a","b">>, <<"a">>}

\* fill with "V"
FillForm(v) == <<"f","i","l","l"," ","w","i","t","h"," ","\"">> \o v \o <<"\"">>

\* scenarios of the runs of one scenario: every action of the switch, with
\* expectations inside and outside the grammars, and actions outside the switch
HandlerPool ==
  { Scenario(A_check_style, T_btn, StyleForm(p, verb, v)) :
      p \in StyleProps, verb \in StyleVerbs, v \in StyleWanted }
  \cup { Scenario(A_check_style, T_btn, e) : e \in StyleMalformed }
  \cup { Scenario(A_check_text, T_btn, TextForm(verb, v)) : verb \in TextVerbs, v \in TextWanted }
  \cup { Scenario(A_fill_input, T_btn, FillForm(v)) : v \in FillWanted }
  \cup { Scenario(<<"C","h","e","c","k","_","S","t","y","l","e">>, T_btn, StyleForm(<<"c","o","l","o","r">>, <<" ","s","h","o","u","l","d"," ","b","e"," ">>, <<"y","e","l","l","o","w">>)),
         Scenario(A_click, T_btn, <<>>),
         Scenario(A_hover, T_btn, <<"e","l","e","m","e","n","t"," ","s","h","o","u","l","d"," ","b","e"," ","h","i","d","d","e","n">>),
         Scenario(A_check_text, T_btn, <<"t","e","x","t"," ","s","h","o","u","l","d"," ","c","o","n","t","a","i","n"," ","\"","H","i","\"">>),
         Scenario(A_check_text, T_btn, <<"H","i">>),
         Scenario(A_check_visibility, T_btn, <<"e","l","e","m","e","n","t"," ","s","h","o","u","l","d"," ","b","e"," ","h","i","d","d","e","n">>),
         Scenario(A_check_visibility, T_missing, <<"E","l","e","m","e","n","t"," ","s","h","o","u","l","d"," ","b","e"," ","V","I","S","I","B","L","E">>),
         Scenario(A_fill_input, T_btn, <<"f","i","l","l"," ","w","i","t","h"," ","\"","a","b","\"">>),
         Scenario(A_fill_input, T_btn, <<"a","b">>),
         Scenario(A_navigate, T_btn, <<"/","p">>),
         Scenario(<<"D","r","a","g","_","D","r","o","p">>, T_missing, <<>>),
         Scenario(<<>>, T_btn, <<>>) }

\* all sequences over pool of length at most n
Lists(pool, n) == UNION {[1..k -> pool] : k \in 0..n}

ScenarioLists == Lists(RunPool, MaxScenarios) \cup Lists(HandlerPool, 1)

\* values getComputedStyle(el).getPropertyValue(prop) may return
StyleValues == {<<"r","g","b","(","2","5","5",","," ","2","5","5",","," ","0",")">>,
                <<" ","r","g","b","(","2","5","5",","," ","0",","," ","0",")"," ">>,
                <<"1","2","p","x">>,
                <<"r","g","b","a","(","2","5","5",","," ","2","5","5",","," ","0",","," ","0",".","5",")">>}

\* values el.textContent may have
TextValues == {<<"H","i"," ","t","h","e","r","e">>, <<"H">>, <<>>}

\* messages of the errors the collaborators throw
ErrTargetClosed == <<"T","a","r","g","e","t"," ","c","l","o","s","e","d">>

ErrBrowser == <<"b","r","o","w","s","e","r"," ","e","r","r","o","r">>

ErrJira == <<"j","i","r","a"," ","e","r","r","o","r">>

ErrAI == <<"a","i"," ","e","r","r","o","r">>

\* request bodies: a field that is absent or empty is <<>>
TicketOk == <<"Q","A","-","1","2">>

PortalOk == <<"h","t","t","p",":","/","/","p">>

Requests ==
  { [ticketId |-> TicketOk, portalUrl |-> PortalOk, scenarios |-> l] :
      l \in ScenarioLists }
  \cup { [ticketId |-> <<>>, portalUrl |-> PortalOk, scenarios |-> <<>>],
         [ticketId |-> TicketOk, portalUrl |-> <<>>, scenarios |-> <<>>],
         [ticketId |-> <<"q","a","-","1","2">>, portalUrl |-> PortalOk, scenarios |-> <<>>],
         [ticketId |-> <<"b","r","o","w","s","e","/","Q","A","-","1","2","x">>, portalUrl |-> PortalOk, scenarios |-> <<>>] }

\* ------------------------------------------------------------------------
\* State
\* ------------------------------------------------------------------------

VARIABLES
  input,         \* input[r]: the request body and the scenario list the AI will answer with
  pc,            \* pc[r]: the await at which request r is suspended
  srv,           \* srv[r]: locals of the POST /api/test handler
  responses,     \* responses[r]: the HTTP responses sent for request r
  scenarios,     \* scenarios[r]: the scenarios argument of runTests
  browser,       \* browser[r]: the local variable browser of runTests, 0 for null
  results,       \* results[r]: the local array results of runTests
  cur,           \* cur[r]: index of the scenario whose handler is in progress, 0 for none
  starts,        \* starts[r]: the handlers started, each with the number of results it saw
  calls,         \* calls[r]: the calls run r made on puppeteer and on timers
  returned,      \* returned[r]: <<results>> once runTests has returned
  thrown,        \* thrown[r]: <<message>> once runTests has thrown
  browserState,  \* browserState[b]: "none", "open", "crashed" or "closed"
  closeCalls,    \* closeCalls[b]: the number of browser.close() calls on b
  probe          \* a value handed to normalizeColorValue, and what it returned

vars == <<input, pc, srv, responses, scenarios, browser, results, cur, starts,
          calls, returned, thrown, browserState, closeCalls, probe>>

srvVars == <<srv, responses>>

runVars == <<scenarios, browser, results, cur, starts, calls, returned, thrown>>

envVars == <<browserState, closeCalls>>

NoSrv == [extractedId |-> <<>>, ticket |-> <<>>, parsed |-> FALSE, reported |-> FALSE]

\* the body of a request that never arrives
NoRequest == [ticketId |-> <<>>, portalUrl |-> <<>>, scenarios |-> <<>>]

\* no value was handed to normalizeColorValue on its own
NoProbe == [color |-> <<>>, means |-> <<>>, once |-> <<>>, twice |-> <<>>]

\* nothing has run yet
Fresh ==
  /\ srv = [r \in Runs |-> NoSrv]
  /\ responses = [r \in Runs |-> <<>>]
  /\ scenarios = [r \in Runs |-> <<>>]
  /\ browser = [r \in Runs |-> 0]
  /\ results = [r \in Runs |-> <<>>]
  /\ cur = [r \in Runs |-> 0]
  /\ starts = [r \in Runs |-> <<>>]
  /\ calls = [r \in Runs |-> <<>>]
  /\ returned = [r \in Runs |-> <<>>]
  /\ thrown = [r \in Runs |-> <<>>]
  /\ browserState = [b \in Browsers |-> "none"]
  /\ closeCalls = [b \in Browsers |-> 0]

\* one request, drawn from requests, is about to be handled
InitWith(requests) ==
  /\ input \in {[r \in Runs |-> IF r = 1 THEN q ELSE NoRequest] : q \in requests}
  /\ pc = [r \in Runs |-> IF r = 1 THEN "idle" ELSE "off"]
  /\ probe = NoProbe
  /\ Fresh

\* ------------------------------------------------------------------------
\* The log of calls, and what the collaborators may answer
\* ------------------------------------------------------------------------

\* a call issued on browser b while scenario i is handled (0: by runTests
\* itself), with `done` results appended so far; ret is <<>> until it settles
Call(log, b, i, op, arg, done) ==
  Append(log, [b |-> b, idx |-> i, op |-> op, arg |-> arg, done |-> done, ret |-> <<>>])

\* the pending call settles with outcome o
Settle(log, o) == [log EXCEPT ![Len(log)].ret = o]

\* await new Promise(resolve => setTimeout(resolve, ms))
Delay(log, b, i, ms, done) ==
  Append(log, [b |-> b, idx |-> i, op |-> "delay", arg |-> NatToStr(ms),
               done |-> done, ret |-> <<"ok">>])

Ok == <<"ok">>

Thrown(msg) == <<"throw", msg>>

IsThrow(o) == o[1] = "throw"

\* outcomes of a call on the page or the browser b that answers with one of
\* `normal` while the browser process lives
Answers(b, normal) ==
  IF browserState[b] = "open"
    THEN normal \cup {Thrown(ErrBrowser)}
    ELSE {Thrown(ErrTargetClosed)}

\* ------------------------------------------------------------------------
\* POST /api/test
\* ------------------------------------------------------------------------

\* res.status(status).json({success: false, error, ticket?})
ErrorResponse(status, error, ticket) ==
  [status |-> status, success |-> FALSE, error |-> <<error>>, ticket |-> ticket,
   allTestsPassed |-> <<>>, results |-> <<>>, report |-> <<>>]

MsgMissingFields == <<"M","i","s","s","i","n","g"," ","r","e","q","u","i","r","e","d"," ","f","i","e","l","d","s",":"," ","t","i","c","k","e","t","I","d"," ","a","n","d"," ","p","o","r","t","a","l","U","r","l">>

MsgInvalidTicket == <<"I","n","v","a","l","i","d"," ","t","i","c","k","e","t"," ","I","D"," ","f","o","r","m","a","t","."," ","E","x","p","e","c","t","e","d"," ","f","o","r","m","a","t",":"," ","A","B","C","-","1","2","3">>

MsgNoCriteria == <<"N","o"," ","a","c","c","e","p","t","a","n","c","e"," ","c","r","i","t","e","r","i","a"," ","f","o","u","n","d"," ","i","n"," ","t","i","c","k","e","t">>

NoCriteria == <<"N","o"," ","a","c","c","e","p","t","a","n","c","e"," ","c","r","i","t","e","r","i","a"," ","f","o","u","n","d">>

MsgFetchFailed(id, message) ==
  <<"F","a","i","l","e","d"," ","t","o"," ","f","e","t","c","h"," ","J","I","R","A"," ","t","i","c","k","e","t"," ">> \o id \o <<":", " ">> \o message

MsgParseFailed(message) ==
  <<"F","a","i","l","e","d"," ","t","o"," ","p","a","r","s","e"," ","a","c","c","e","p","t","a","n","c","e"," ","c","r","i","t","e","r","i","a",":"," ">> \o message

MsgReportFailed(message) ==
  <<"F","a","i","l","e","d"," ","t","o"," ","g","e","n","e","r","a","t","e"," ","t","e","s","t"," ","r","e","p","o","r","t",":"," ">> \o message

\* tickets getJiraTicket may return for the key id
Tickets(id) ==
  { [key |-> id, summary |-> <<"s">>, acceptanceCriteria |-> ac] :
      ac \in {NoCriteria, <<"G","i","v","e","n"," ","x">>} }

Reports == {<<"r","e","p","o","r","t">>}

\* res.status(status).json(...) ends the handler
Respond(r, resp) ==
  /\ responses' = [responses EXCEPT ![r] = Append(@, resp)]
  /\ pc' = [pc EXCEPT ![r] = "done"]

\* the handler up to its first await: the field check, extractJiraTicketId
\* and the call of getJiraTicket
SrvReceive(r) ==
  /\ pc[r] = "idle"
  /\ LET body == input[r]
         id   == extractJiraTicketId(body.ticketId)
     IN  IF body.ticketId = <<>> \/ body.portalUrl = <<>>
           THEN /\ Respond(r, ErrorResponse(400, MsgMissingFields, <<>>))
                /\ UNCHANGED srv
         ELSE IF id = <<>>
           THEN /\ Respond(r, ErrorResponse(400, MsgInvalidTicket, <<>>))
                /\ UNCHANGED srv
         ELSE /\ srv' = [srv EXCEPT ![r].extractedId = <<id>>]
              /\ pc' = [pc EXCEPT ![r] = "fetch"]
              /\ UNCHANGED responses
  /\ UNCHANGED <<probe, input, runVars, envVars>>

\* a handler that goes on to the parse whatever acceptance criteria the
\* ticket carries
SrvFetchedAnyCriteria(r) ==
  /\ pc[r] = "fetch"
  /\ LET id == srv[r].extractedId[1]
     IN  \/ /\ Respond(r, ErrorResponse(500, MsgFetchFailed(id, ErrJira), <<>>))
            /\ UNCHANGED srv
         \/ \E t \in Tickets(id) :
              /\ srv' = [srv EXCEPT ![r].ticket = <<t>>]
              /\ pc' = [pc EXCEPT ![r] = "parse"]
              /\ UNCHANGED responses
  /\ UNCHANGED <<probe, input, runVars, envVars>>

\* getJiraTicket settles: the sentinel check and the call of parseAcceptanceCriteria
SrvFetched(r) ==
  /\ pc[r] = "fetch"
  /\ LET id == srv[r].extractedId[1]
     IN  \/ /\ Respond(r, ErrorResponse(500, MsgFetchFailed(id, ErrJira), <<>>))
            /\ UNCHANGED srv
         \/ \E t \in Tickets(id) :
              IF t.acceptanceCriteria = NoCriteria
                THEN /\ Respond(r, ErrorResponse(400, MsgNoCriteria, <<t>>))
                     /\ srv' = [srv EXCEPT ![r].ticket = <<t>>]
                ELSE /\ srv' = [srv EXCEPT ![r].ticket = <<t>>]
                     /\ pc' = [pc EXCEPT ![r] = "parse"]
                     /\ UNCHANGED responses
  /\ UNCHANGED <<probe, input, runVars, envVars>>

\* parseAcceptanceCriteria settles: runTests is called and runs up to
\* await launchBrowser()
SrvParsed(r) ==
  /\ pc[r] = "parse"
  /\ \/ /\ Respond(r, ErrorResponse(500, MsgParseFailed(ErrAI), <<>>))
        /\ UNCHANGED <<srv, scenarios, calls>>
     \/ /\ srv' = [srv EXCEPT ![r].parsed = TRUE]
        /\ scenarios' = [scenarios EXCEPT ![r] = input[r].scenarios]
        /\ calls' = [calls EXCEPT ![r] = Call(@, 0, 0, "launch", <<>>, 0)]
        /\ pc' = [pc EXCEPT ![r] = "launch"]
        /\ UNCHANGED responses
  /\ UNCHANGED <<probe, input, browser, results, cur, starts, returned, thrown, envVars>>

\* ------------------------------------------------------------------------
\* executeScenario: the results of the handlers
\* ------------------------------------------------------------------------

Result(scenario, passed, error, actualValue) ==
  [scenario |-> scenario, passed |-> passed, error |-> error, actualValue |-> actualValue]

\* a diagnostic that does not name the target
NotFoundUnnamed(scenario) ==
  Result(scenario, FALSE, <<MsgNotFound(<<>>)>>, <<>>)

\* the return of a handler whose target resolved to no element
NotFound(scenario) ==
  Result(scenario, FALSE, <<MsgNotFound(scenario.target)>>, <<>>)

\* a catch block that reports a fixed text in place of error.message
CaughtUnnamed(scenario, message) ==
  Result(scenario, FALSE, <<<<"S","c","e","n","a","r","i","o"," ","f","a","i","l","e","d">>>>, <<>>)

\* the return of the catch block
Caught(scenario, message) == Result(scenario, FALSE, <<message>>, <<>>)

\* the return of the default branch
Unknown(scenario) == Result(scenario, FALSE, <<MsgUnknown(scenario.action)>>, <<>>)

\* a diagnostic that stops before the grammar
ParseFailureBare(scenario) ==
  Result(scenario, FALSE, <<SubSeq(MsgParseStyle, 1, 39)>>, <<>>)

\* the return of check_style when expectedResult does not match
ParseFailure(scenario) == Result(scenario, FALSE, <<MsgParseStyle>>, <<>>)

\* actualValue.trim() === expectedValue.trim(), without normalizeColorValue
StylePassedRaw(actualValue, expectedValue) == trim(actualValue) = trim(expectedValue)

\* normalizedActual === normalizedExpected
StylePassed(actualValue, expectedValue) ==
  normalizeColorValue(trim(actualValue)) = normalizeColorValue(trim(expectedValue))

\* a return of the check handlers that carries the diagnostic whatever the
\* verdict
VerdictWithMessage(scenario, passed, actualValue, message) ==
  Result(scenario, passed, <<message>>, <<actualValue>>)

\* the return of the check handlers: {scenario, passed, actualValue,
\* error: passed ? undefined : message}
Verdict(scenario, passed, actualValue, message) ==
  Result(scenario, passed, IF passed THEN <<>> ELSE <<message>>, <<actualValue>>)

\* the return of check_style for the match <<property, expectedValue>> and
\* the computed value actualValue
StyleResult(scenario, match, actualValue) ==
  Verdict(scenario, StylePassed(actualValue, match[2]), trim(actualValue),
          MsgStyle(match[1], match[2], actualValue))

\* actualText?.includes(expectedText) || actualText === expectedText
TextPassed(actualText, expectedText) ==
  includes(actualText, expectedText) \/ actualText = expectedText

\* the return of check_text for the text content actualText, once
\* expectedText is extracted
TextVerdict(scenario, actualText, expectedText) ==
  Verdict(scenario, TextPassed(actualText, expectedText), actualText,
          MsgText(expectedText, actualText))

\* the return of check_text for the text content actualText
TextResult(scenario, actualText) ==
  TextVerdict(scenario, actualText, ExpectedText(scenario.expectedResult))

\* expectedResult.includes("visible"), without toLowerCase()
ShouldBeVisibleAsWritten(expectedResult) == includes(expectedResult, KwVisible)

\* expectedResult.toLowerCase().includes("visible")
ShouldBeVisible(expectedResult) == includes(toLowerCase(expectedResult), KwVisible)

\* the return of check_visibility, once shouldBeVisible is computed
VisibilityVerdict(scenario, isVisible, shouldBeVisible) ==
  Verdict(scenario, isVisible = shouldBeVisible, StrVisible(isVisible),
          MsgVisibility(shouldBeVisible))

\* the return of check_visibility
VisibilityResult(scenario, isVisible) ==
  VisibilityVerdict(scenario, isVisible, ShouldBeVisible(scenario.expectedResult))

\* an action that passes only when nothing was expected of it
PassedIfNothingExpected(scenario) ==
  Result(scenario, scenario.expectedResult = <<>>, <<>>, <<>>)

\* the return of click, hover, fill_input and navigate
Passed(scenario) == Result(scenario, TRUE, <<>>, <<>>)

\* the settle delay of an action, 0 for none
SettleDelay(kind) ==
  IF kind = A_click THEN 500
  ELSE IF kind = A_hover THEN 300
  ELSE IF kind = A_navigate THEN 1000
  ELSE 0

\* ------------------------------------------------------------------------
\* runTests
\* ------------------------------------------------------------------------

\* a loop that stops at the first failed result (if (!result.passed) break)
NextIndexStopOnFail(r) ==
  IF \E i \in 1..Len(results[r]) : ~results[r][i].passed
    THEN Len(scenarios[r]) + 1
    ELSE Len(results[r]) + 1

\* the scenario the for-of loop hands to executeScenario next
NextIndex(r) == Len(results[r]) + 1

\* the switch on the action as written, without toLowerCase()
ActionKindAsWritten(scenario) == scenario.action

\* action.toLowerCase(), the value the switch dispatches on
ActionKind(scenario) == toLowerCase(scenario.action)

\* the value the handler in progress was dispatched on
Kind(r) == ActionKind(scenarios[r][cur[r]])

\* browser.close() as the last statement of the try block, with no finally
FinallyOnSuccessOnly(r, log) ==
  IF browser[r] # 0 /\ pc[r] = "loop"
    THEN /\ calls' = [calls EXCEPT ![r] =
                        Call(log, browser[r], 0, "close", <<>>, Len(results[r]))]
         /\ closeCalls' = [closeCalls EXCEPT ![browser[r]] = @ + 1]
         /\ pc' = [pc EXCEPT ![r] = "closing"]
    ELSE /\ calls' = [calls EXCEPT ![r] = log]
         /\ pc' = [pc EXCEPT ![r] = "ran"]
         /\ UNCHANGED closeCalls

\* a finally block that starts the close and does not await it
FinallyNotAwaited(r, log) ==
  IF browser[r] # 0
    THEN /\ calls' = [calls EXCEPT ![r] =
                        Call(log, browser[r], 0, "close", <<>>, Len(results[r]))]
         /\ closeCalls' = [closeCalls EXCEPT ![browser[r]] = @ + 1]
         /\ pc' = [pc EXCEPT ![r] = "ran"]
    ELSE /\ calls' = [calls EXCEPT ![r] = log]
         /\ pc' = [pc EXCEPT ![r] = "ran"]
         /\ UNCHANGED closeCalls

\* the finally block, entered with the log at `log`: a launched browser is
\* closed and the close awaited
Finally(r, log) ==
  IF browser[r] # 0
    THEN /\ calls' = [calls EXCEPT ![r] =
                        Call(log, browser[r], 0, "close", <<>>, Len(results[r]))]
         /\ closeCalls' = [closeCalls EXCEPT ![browser[r]] = @ + 1]
         /\ pc' = [pc EXCEPT ![r] = "closing"]
    ELSE /\ calls' = [calls EXCEPT ![r] = log]
         /\ pc' = [pc EXCEPT ![r] = "ran"]
         /\ UNCHANGED closeCalls

\* the catch block of runTests rethrows, then finally
Abort(r, log, message) ==
  /\ thrown' = [thrown EXCEPT ![r] = <<MsgFatal(message)>>]
  /\ Finally(r, log)

\* a launchBrowser() that hands out one browser kept in a module variable:
\* the first call launches it, later calls return it while it is open
LaunchShared(r) ==
  /\ pc[r] = "launch"
  /\ \/ \E b \in Browsers :
          /\ IF \E c \in Browsers : browserState[c] = "open"
               THEN browserState[b] = "open" /\ UNCHANGED browserState
               ELSE /\ browserState[b] = "none"
                    /\ \A c \in Browsers : browserState[c] = "none" => b <= c
                    /\ browserState' = [browserState EXCEPT ![b] = "open"]
          /\ browser' = [browser EXCEPT ![r] = b]
          /\ calls' = [calls EXCEPT ![r] = Call(Settle(@, <<"browser", b>>), b, 0, "newPage", <<>>, 0)]
          /\ pc' = [pc EXCEPT ![r] = "newPage"]
          /\ UNCHANGED <<thrown, closeCalls>>
     \/ /\ Abort(r, Settle(calls[r], Thrown(ErrBrowser)), ErrBrowser)
        /\ UNCHANGED <<browser, browserState>>
  /\ UNCHANGED <<probe, input, srvVars, scenarios, results, cur, starts, returned>>

\* await launchBrowser() settles
Launch(r) ==
  /\ pc[r] = "launch"
  /\ \/ \E b \in Browsers :
          /\ browserState[b] = "none"
          /\ \A c \in Browsers : browserState[c] = "none" => b <= c
          /\ browserState' = [browserState EXCEPT ![b] = "open"]
          /\ browser' = [browser EXCEPT ![r] = b]
          /\ calls' = [calls EXCEPT ![r] = Call(Settle(@, <<"browser", b>>), b, 0, "newPage", <<>>, 0)]
          /\ pc' = [pc EXCEPT ![r] = "newPage"]
          /\ UNCHANGED <<thrown, closeCalls>>
     \/ /\ Abort(r, Settle(calls[r], Thrown(ErrBrowser)), ErrBrowser)
        /\ UNCHANGED <<browser, browserState>>
  /\ UNCHANGED <<probe, input, srvVars, scenarios, results, cur, starts, returned>>

\* a call of the set-up settles with o: on success runTests goes on to the
\* call nextOp and the await nextPc, on failure to its catch block
SetUp(r, at, nextOp, nextArg, nextPc) ==
  /\ pc[r] = at
  /\ \E o \in Answers(browser[r], {Ok}) :
       IF IsThrow(o)
         THEN Abort(r, Settle(calls[r], o), o[2])
         ELSE /\ calls' = [calls EXCEPT ![r] =
                             Call(Settle(@, o), browser[r], 0, nextOp, nextArg, 0)]
              /\ pc' = [pc EXCEPT ![r] = nextPc]
              /\ UNCHANGED <<thrown, closeCalls>>
  /\ UNCHANGED <<probe, input, srvVars, scenarios, browser, results, cur, starts, returned,
                 browserState>>

\* await browser.newPage() settles
NewPage(r) == SetUp(r, "newPage", "setViewport", <<>>, "setViewport")

\* await page.setViewport(...) settles
SetViewport(r) == SetUp(r, "setViewport", "goto", input[r].portalUrl, "goto")

\* the initial navigation with its failure logged and ignored
GotoIgnoringFailure(r) ==
  /\ pc[r] = "goto"
  /\ \E o \in Answers(browser[r], {Ok}) :
       /\ calls' = [calls EXCEPT ![r] = Delay(Settle(@, o), browser[r], 0, 2000, 0)]
       /\ pc' = [pc EXCEPT ![r] = "loop"]
       /\ UNCHANGED <<thrown, closeCalls>>
  /\ UNCHANGED <<probe, input, srvVars, scenarios, browser, results, cur, starts, returned,
                 browserState>>

\* await page.goto(portalUrl, ...) settles; on success the 2 s wait follows
Goto(r) ==
  /\ pc[r] = "goto"
  /\ \E o \in Answers(browser[r], {Ok}) :
       IF IsThrow(o)
         THEN Abort(r, Settle(calls[r], o), o[2])
         ELSE /\ calls' = [calls EXCEPT ![r] = Delay(Settle(@, o), browser[r], 0, 2000, 0)]
              /\ pc' = [pc EXCEPT ![r] = "loop"]
              /\ UNCHANGED <<thrown, closeCalls>>
  /\ UNCHANGED <<probe, input, srvVars, scenarios, browser, results, cur, starts, returned,
                 browserState>>

\* results.unshift(result) in place of results.push(result)
FinishUnshift(r, log, res) ==
  /\ results' = [results EXCEPT ![r] = <<res>> \o @]
  /\ cur' = [cur EXCEPT ![r] = 0]
  /\ calls' = [calls EXCEPT ![r] = Delay(log, browser[r], 0, 500, Len(results[r]) + 1)]
  /\ pc' = [pc EXCEPT ![r] = "loop"]

\* executeScenario returns res: results.push(result) and the 500 ms delay
Finish(r, log, res) ==
  /\ results' = [results EXCEPT ![r] = Append(@, res)]
  /\ cur' = [cur EXCEPT ![r] = 0]
  /\ calls' = [calls EXCEPT ![r] = Delay(log, browser[r], 0, 500, Len(results[r]) + 1)]
  /\ pc' = [pc EXCEPT ![r] = "loop"]

\* the call op(arg) issued without await: the loop goes on at once
AwaitDetached(r, i, log, op, arg, at) ==
  /\ calls' = [calls EXCEPT ![r] = Call(log, browser[r], i, op, arg, Len(results[r]))]
  /\ cur' = [cur EXCEPT ![r] = i]
  /\ pc' = [pc EXCEPT ![r] = "loop"]
  /\ UNCHANGED results

\* executeScenario awaits the call op(arg) on the page
Await(r, i, log, op, arg, at) ==
  /\ calls' = [calls EXCEPT ![r] = Call(log, browser[r], i, op, arg, Len(results[r]))]
  /\ cur' = [cur EXCEPT ![r] = i]
  /\ pc' = [pc EXCEPT ![r] = at]
  /\ UNCHANGED results

\* the head of the for-of loop: the next scenario is handed to
\* executeScenario, which runs to its first await or to its return
LoopNext(r) ==
  /\ pc[r] = "loop"
  /\ NextIndex(r) <= Len(scenarios[r])
  /\ LET i        == NextIndex(r)
         scenario == scenarios[r][i]
         kind     == ActionKind(scenario)
     IN  /\ starts' = [starts EXCEPT ![r] = Append(@, [idx |-> i, done |-> Len(results[r])])]
         /\ IF kind \notin KnownActions
              THEN Finish(r, calls[r], Unknown(scenario))
            ELSE IF kind = A_navigate
              THEN Await(r, i, calls[r], "goto", NavigateUrl(scenario.expectedResult), "h_act")
            ELSE Await(r, i, calls[r], "$", scenario.target, "h_resolve")
  /\ UNCHANGED <<probe, input, srvVars, scenarios, browser, returned, thrown, envVars>>

\* the loop is over: return results, then finally
LoopEnd(r) ==
  /\ pc[r] = "loop"
  /\ NextIndex(r) > Len(scenarios[r])
  /\ returned' = [returned EXCEPT ![r] = <<results[r]>>]
  /\ Finally(r, calls[r])
  /\ UNCHANGED <<probe, input, srvVars, scenarios, browser, results, cur, starts, thrown,
                 browserState>>

\* await page.$(target) settles
Resolve(r) ==
  /\ pc[r] = "h_resolve"
  /\ \E o \in Answers(browser[r], {<<"element">>, <<"null">>}) :
       LET i        == cur[r]
           scenario == scenarios[r][i]
           kind     == Kind(r)
           log      == Settle(calls[r], o)
       IN  IF IsThrow(o)
             THEN Finish(r, log, Caught(scenario, o[2]))
           ELSE IF kind = A_check_visibility
             THEN Finish(r, log, VisibilityResult(scenario, o = <<"element">>))
           ELSE IF o = <<"null">>
             THEN Finish(r, log, NotFound(scenario))
           ELSE IF kind = A_check_style
             THEN \E match \in {StyleMatch(scenario.expectedResult)} :
                    IF match = <<>>
                      THEN Finish(r, log, ParseFailure(scenario))
                      ELSE Await(r, i, log, "getPropertyValue", trim(match[1]), "h_eval")
           ELSE IF kind = A_check_text
             THEN Await(r, i, log, "textContent", <<>>, "h_eval")
           ELSE IF kind = A_click
             THEN Await(r, i, log, "click", <<>>, "h_act")
           ELSE IF kind = A_hover
             THEN Await(r, i, log, "hover", <<>>, "h_act")
           ELSE Await(r, i, log, "type", FillValue(scenario.expectedResult), "h_act")
  /\ UNCHANGED <<probe, input, srvVars, scenarios, browser, starts, returned, thrown, envVars>>

\* await page.evaluate(...) settles, in check_style and check_text
Evaluate(r) ==
  /\ pc[r] = "h_eval"
  /\ LET scenario == scenarios[r][cur[r]]
         values   == IF Kind(r) = A_check_style THEN StyleValues ELSE TextValues
     IN  \E o \in Answers(browser[r], {<<"value", v>> : v \in values}) :
           LET log == Settle(calls[r], o)
           IN  IF IsThrow(o)
                 THEN Finish(r, log, Caught(scenario, o[2]))
               ELSE IF Kind(r) = A_check_style
                 THEN Finish(r, log,
                             StyleResult(scenario, StyleMatch(scenario.expectedResult), o[2]))
               ELSE Finish(r, log, TextResult(scenario, o[2]))
  /\ UNCHANGED <<probe, input, srvVars, scenarios, browser, starts, returned, thrown, envVars>>

\* await element.click(), element.hover(), element.type(value) or
\* page.goto(url, ...) settles; the settle delay of the action follows
Act(r) ==
  /\ pc[r] = "h_act"
  /\ LET scenario == scenarios[r][cur[r]]
         ms       == SettleDelay(Kind(r))
     IN  \E o \in Answers(browser[r], {Ok}) :
           LET log == Settle(calls[r], o)
           IN  IF IsThrow(o)
                 THEN Finish(r, log, Caught(scenario, o[2]))
               ELSE IF ms = 0
                 THEN Finish(r, log, Passed(scenario))
               ELSE Finish(r, Delay(log, browser[r], cur[r], ms, Len(results[r])),
                           Passed(scenario))
  /\ UNCHANGED <<probe, input, srvVars, scenarios, browser, starts, returned, thrown, envVars>>

\* await browser.close() settles: runTests is over
Closed(r) ==
  /\ pc[r] = "closing"
  /\ browserState' = [browserState EXCEPT ![browser[r]] = "closed"]
  /\ calls' = [calls EXCEPT ![r] = Settle(@, Ok)]
  /\ pc' = [pc EXCEPT ![r] = "ran"]
  /\ UNCHANGED <<probe, input, srvVars, scenarios, browser, results, cur, starts, returned,
                 thrown, closeCalls>>

\* the browser process dies
Crash(b) ==
  /\ browserState[b] = "open"
  /\ browserState' = [browserState EXCEPT ![b] = "crashed"]
  /\ UNCHANGED <<probe, input, pc, srvVars, runVars, closeCalls>>

\* ------------------------------------------------------------------------
\* POST /api/test, after runTests
\* ------------------------------------------------------------------------

\* a count of the distinct passed results, not of the passed results
PassedCountOfDistinct(testResults) ==
  Cardinality({testResults[i] : i \in {j \in 1..Len(testResults) : testResults[j].passed}})

\* testResults.filter((r) => r.passed).length
PassedCount(testResults) ==
  Cardinality({i \in 1..Len(testResults) : testResults[i].passed})

\* the entries of results.tests
Tests(testResults) ==
  [i \in 1..Len(testResults) |->
     [description |-> testResults[i].scenario.description,
      action      |-> testResults[i].scenario.action,
      target      |-> testResults[i].scenario.target,
      expected    |-> testResults[i].scenario.expectedResult,
      passed      |-> testResults[i].passed,
      actual      |-> testResults[i].actualValue,
      error       |-> testResults[i].error]]

\* res.json({success: true, allTestsPassed, ticket, results, report})
OkResponse(ticket, testResults, report) ==
  LET passedCount == PassedCount(testResults)
      totalCount  == Len(testResults)
  IN  [status |-> 200, success |-> TRUE, error |-> <<>>, ticket |-> ticket,
       allTestsPassed |-> <<passedCount = totalCount>>,
       results |-> << [total  |-> totalCount,
                       passed |-> passedCount,
                       failed |-> totalCount - passedCount,
                       tests  |-> Tests(testResults)] >>,
       report |-> <<report>>]

\* await runTests(...) settles: a rejection goes to the catch block, a result
\* to the counts and the call of generateTestReport
SrvRan(r) ==
  /\ pc[r] = "ran"
  /\ IF thrown[r] # <<>>
       THEN Respond(r, ErrorResponse(500, thrown[r][1], <<>>))
       ELSE /\ pc' = [pc EXCEPT ![r] = "report"]
            /\ UNCHANGED responses
  /\ UNCHANGED <<probe, input, srv, runVars, envVars>>

\* await generateTestReport(...) settles
SrvReported(r) ==
  /\ pc[r] = "report"
  /\ \/ /\ Respond(r, ErrorResponse(500, MsgReportFailed(ErrAI), <<>>))
        /\ UNCHANGED srv
     \/ \E report \in Reports :
          /\ Respond(r, OkResponse(srv[r].ticket, returned[r][1], report))
          /\ srv' = [srv EXCEPT ![r].reported = TRUE]
  /\ UNCHANGED <<probe, input, runVars, envVars>>

Next ==
  \/ \E r \in Runs :
       \/ SrvReceive(r)
       \/ SrvFetched(r)
       \/ SrvParsed(r)
       \/ Launch(r)
       \/ NewPage(r)
       \/ SetViewport(r)
       \/ Goto(r)
       \/ LoopNext(r)
       \/ LoopEnd(r)
       \/ Resolve(r)
       \/ Evaluate(r)
       \/ Act(r)
       \/ Closed(r)
       \/ SrvRan(r)
       \/ SrvReported(r)
  \/ \E b \in Browsers : Crash(b)

Init == InitWith(Requests)

Spec == Init /\ [][Next]_vars

\* the event loop runs every continuation whose awaited promise has settled,
\* and every awaited promise settles: timers fire, the calls on the browser,
\* on JIRA and on the AI service resolve or reject
Fairness == WF_vars(Next)

SpecFair == Spec /\ Fairness

\* ------------------------------------------------------------------------
\* normalizeColorValue on its own
\* ------------------------------------------------------------------------

\* channel values of the colours handed to normalizeColorValue
Channels == {0, 7, 17, 128, 255}

UpperHexSeq == <<"0","1","2","3","4","5","6","7","8","9","A","B","C","D","E","F">>

\* s in capital letters
UpperOf(s) ==
  [i \in 1..Len(s) |->
     IF s[i] \in Range(LowerSeq) THEN UpperSeq[IndexIn(LowerSeq, s[i])] ELSE s[i]]

\* the two hexadecimal digits of n
Hex2(n) == <<HexSeq[(n \div 16) + 1], HexSeq[(n % 16) + 1]>>

\* #rrggbb
Hex6(r, g, b) == <<"#">> \o Hex2(r) \o Hex2(g) \o Hex2(b)

\* #rgb, for channels that are multiples of 17
Hex3(r, g, b) == <<"#", HexSeq[(r \div 17) + 1], HexSeq[(g \div 17) + 1], HexSeq[(b \div 17) + 1]>>

\* rgb(r,g,b), with `gap` after each comma
RgbForm(r, g, b, gap) ==
  <<"r","g","b","(">> \o NatToStr(r) \o <<",">> \o gap \o NatToStr(g) \o <<",">> \o gap
    \o NatToStr(b) \o <<")">>

\* rgba(r,g,b,alpha), with `gap` after each comma
RgbaForm(r, g, b, gap, alpha) ==
  <<"r","g","b","a","(">> \o NatToStr(r) \o <<",">> \o gap \o NatToStr(g) \o <<",">> \o gap
    \o NatToStr(b) \o <<",">> \o gap \o alpha \o <<")">>

\* the ways of writing the colour (r, g, b), in small letters
Written(r, g, b) ==
  {Hex6(r, g, b),
   RgbForm(r, g, b, <<>>), RgbForm(r, g, b, <<" ">>),
   RgbaForm(r, g, b, <<>>, <<"0",".","5">>), RgbaForm(r, g, b, <<" ">>, <<"1">>),
   RgbaForm(r, g, b, <<" ">>, <<"0">>)}
  \cup (IF r % 17 = 0 /\ g % 17 = 0 /\ b % 17 = 0 THEN {Hex3(r, g, b)} ELSE {})

\* x as written, in capital letters, and in capital letters inside white space
Spellings(x) == {x, UpperOf(x), <<" ", "\t">> \o UpperOf(x) \o <<" ">>}

\* the ways of writing the colour (r, g, b)
Representations(r, g, b) == UNION {Spellings(x) : x \in Written(r, g, b)}

\* the names of the lookup table, in the three spellings
NameSpellings == UNION {Spellings(e[1]) : e \in colorMap}

\* values that are no colour of the recognized forms
OtherValues ==
  {<<"r","g","b","(","1","2","3",")">>,
   <<"#","g","g","g">>,
   <<"1","2","p","x">>,
   <<"#","1","g","g","1","0","x">>,
   <<"r","g","b","(","1",",","2",")">>,
   <<"r","g","b","a","(","1",",","2",",","3">>,
   <<"#","f","f","f","f">>,
   <<>>,
   <<"b","o","l","d">>,
   <<"r","g","b","(","1","2",",","3","4"," ","5",")">>,
   <<"#","-","1","-","1","-","1">>,
   <<"r","g","b","(","1",","," ","2",","," ","3">>,
   <<"r","g","b","(","2","5","5"," ","2","5","5"," ","0",")">>,
   <<"t","r","a","n","s","p","a","r","e","n","t">>,
   <<"r","g","b","(","1","0","%",","," ","2","0","%",","," ","3","0","%",")">>,
   <<"#","1","2">>,
   <<" "," ","S","o","l","i","d"," "," ">>,
   <<"#","G","G","G">>,
   <<"1","p","x"," ","s","o","l","i","d"," ","R","E","D">>,
   <<"r","g","b","(","1",","," ","N","a","N",","," ","N","a","N",")">>}

\* the values handed to normalizeColorValue, each with the channels of the
\* colour it was written for, if any
ColorInputs ==
  UNION {{[color |-> c, means |-> <<r, g, b>>] : c \in Representations(r, g, b)} :
           r, g, b \in Channels}
    \cup {[color |-> c, means |-> <<>>] : c \in NameSpellings \cup OtherValues}

InitNormalize ==
  /\ input = [r \in Runs |-> NoRequest]
  /\ pc = [r \in Runs |-> "off"]
  /\ probe \in {[color |-> c.color, means |-> c.means, once |-> <<>>, twice |-> <<>>] :
                  c \in ColorInputs}
  /\ Fresh

\* normalizeColorValue(color)
Normalize ==
  /\ probe.once = <<>>
  /\ probe' = [probe EXCEPT !.once = <<normalizeColorValue(probe.color)>>]
  /\ UNCHANGED <<input, pc, srvVars, runVars, envVars>>

\* normalizeColorValue(normalizeColorValue(color))
NormalizeAgain ==
  /\ probe.once # <<>>
  /\ probe.twice = <<>>
  /\ probe' = [probe EXCEPT !.twice = <<normalizeColorValue(probe.once[1])>>]
  /\ UNCHANGED <<input, pc, srvVars, runVars, envVars>>

NextNormalize == Normalize \/ NormalizeAgain

SpecNormalize == InitNormalize /\ [][NextNormalize]_vars

\* ------------------------------------------------------------------------
\* Concurrent requests
\* ------------------------------------------------------------------------

\* scenario lists of the requests that are handled at the same time
ConcurrentLists ==
  Lists({Scenario(A_click, T_btn, <<>>),
         Scenario(A_check_text, T_btn, <<"H","i">>)}, 1)

\* the requests that are in flight together
Concurrent == {1, 2}

\* the requests of Concurrent have arrived and none has been answered
InitConcurrent ==
  /\ input \in {[r \in Runs |->
                   IF r \in Concurrent
                     THEN [ticketId |-> TicketOk, portalUrl |-> PortalOk, scenarios |-> l[r]]
                     ELSE NoRequest] : l \in [Concurrent -> ConcurrentLists]}
  /\ pc = [r \in Runs |-> IF r \in Concurrent THEN "idle" ELSE "off"]
  /\ probe = NoProbe
  /\ Fresh

SpecConcurrent == InitConcurrent /\ [][Next]_vars

\* ------------------------------------------------------------------------
\* Properties
\* ------------------------------------------------------------------------

\* the calls issued while scenario i of run r was handled, settle delays included
CallsOf(r, i) == SelectSeq(calls[r], LAMBDA e : e.idx = i)

\* the browsers that launchBrowser() handed to run r
LaunchedBy(r) ==
  {calls[r][k].ret[2] :
     k \in {j \in 1..Len(calls[r]) :
              /\ calls[r][j].op = "launch"
              /\ calls[r][j].ret # <<>>
              /\ calls[r][j].ret[1] = "browser"}}

\* the number of browser.close() calls run r issued
CloseCount(r) ==
  Cardinality({k \in 1..Len(calls[r]) : calls[r][k].op = "close"})

\* the promise of runTests has settled
Completed(r) ==
  /\ pc[r] \in {"ran", "report", "done"}
  /\ returned[r] # <<>> \/ thrown[r] # <<>>

\* C1: whenever runTests returns, the returned sequence has one result per
\* input scenario, and result i carries scenario i
C1_OneResultPerScenario ==
  \A r \in Runs :
    returned[r] # <<>> =>
      /\ Len(returned[r][1]) = Len(scenarios[r])
      /\ \A i \in 1..Len(scenarios[r]) : returned[r][1][i].scenario = scenarios[r][i]

\* a run of three scenarios, not all the same and not all passed, has returned
C1_Witness ==
  \E r \in Runs :
    /\ returned[r] # <<>>
    /\ Len(returned[r][1]) = MaxScenarios
    /\ scenarios[r][1] # scenarios[r][2]
    /\ ~returned[r][1][1].passed
    /\ returned[r][1][2].passed

\* C2: a browser is closed at most once; when runTests has settled, every
\* browser it launched has been closed by exactly one close call, whether it
\* returned or threw, and a run whose launch failed issued no close
C2_ClosedExactlyOnce ==
  /\ \A b \in Browsers : closeCalls[b] <= 1
  /\ \A r \in Runs :
       Completed(r) =>
         /\ \A b \in LaunchedBy(r) : closeCalls[b] = 1 /\ browserState[b] = "closed"
         /\ CloseCount(r) = Cardinality(LaunchedBy(r))
         /\ LaunchedBy(r) = {} => thrown[r] # <<>>

\* runTests has thrown after its browser was launched, and the browser is closed
C2_Witness ==
  \E r \in Runs :
    /\ Completed(r)
    /\ thrown[r] # <<>>
    /\ LaunchedBy(r) # {}
    /\ \A b \in LaunchedBy(r) : closeCalls[b] = 1

\* a call issued by a scenario handler of run r failed because the browser
\* process was dead
CrashSeenInLoop(r) ==
  \E k \in 1..Len(calls[r]) :
    calls[r][k].idx >= 1 /\ calls[r][k].ret = Thrown(ErrTargetClosed)

\* C3: once the browser process has died under the scenario loop, runTests
\* settles by throwing one error and returns no result sequence, and the
\* browser has been closed by exactly one close call
C3_CrashIsFatal ==
  \A r \in Runs :
    (Completed(r) /\ CrashSeenInLoop(r)) =>
      /\ thrown[r] # <<>>
      /\ returned[r] = <<>>
      /\ CloseCount(r) = 1

\* the browser died under the loop and runTests returned a complete result
\* sequence, which the server answered with status 200
C3_Witness ==
  \E r \in Runs :
    /\ CrashSeenInLoop(r)
    /\ returned[r] # <<>>
    /\ Len(returned[r][1]) = Len(scenarios[r])
    /\ pc[r] = "done"
    /\ responses[r][1].status = 200

\* the scenario loop of run r is still going on or has returned
Going(r) ==
  \/ pc[r] \in {"loop", "h_resolve", "h_eval", "h_act"}
  \/ returned[r] # <<>>

\* C4: a failed result never ends the run: after it the loop goes on with no
\* error thrown, and in the returned sequence every later scenario was started
\* once and has a result of its own
C4_FailureDoesNotInterrupt ==
  \A r \in Runs :
    \A i \in 1..Len(results[r]) :
      ~results[r][i].passed =>
        /\ thrown[r] = <<>>
        /\ Going(r)
        /\ returned[r] # <<>> =>
             \A j \in (i + 1)..Len(scenarios[r]) :
               /\ Cardinality({k \in 1..Len(starts[r]) : starts[r][k].idx = j}) = 1
               /\ j <= Len(returned[r][1])
               /\ returned[r][1][j].scenario = scenarios[r][j]

\* three scenarios, the first failed on element-not-found, the others passed
C4_Witness ==
  \E r \in Runs :
    /\ returned[r] # <<>>
    /\ Len(returned[r][1]) = 3
    /\ returned[r][1][1] = NotFound(scenarios[r][1])
    /\ returned[r][1][2].passed
    /\ returned[r][1][3].passed

\* the initial navigation of run r has failed
InitialGotoFailed(r) ==
  \E k \in 1..Len(calls[r]) :
    /\ calls[r][k].idx = 0
    /\ calls[r][k].op = "goto"
    /\ calls[r][k].ret # <<>>
    /\ IsThrow(calls[r][k].ret)

\* C5: when the initial navigation fails no scenario handler ever starts,
\* runTests throws and returns nothing, the browser is closed once, and the
\* request is answered by one error response without results or report
C5_InitialNavigationFatal ==
  \A r \in Runs :
    InitialGotoFailed(r) =>
      /\ starts[r] = <<>> /\ results[r] = <<>> /\ returned[r] = <<>>
      /\ \A k \in 1..Len(calls[r]) : calls[r][k].idx = 0
      /\ thrown[r] # <<>>
      /\ pc[r] \in {"closing", "ran", "done"}
      /\ CloseCount(r) = 1
      /\ pc[r] = "done" =>
           /\ Len(responses[r]) = 1
           /\ ~responses[r][1].success
           /\ responses[r][1].status = 500
           /\ responses[r][1].error = thrown[r]
           /\ responses[r][1].results = <<>>
           /\ responses[r][1].report = <<>>
           /\ \A b \in LaunchedBy(r) : browserState[b] = "closed"

\* a request whose initial navigation failed has been answered
C5_Witness ==
  \E r \in Runs :
    /\ InitialGotoFailed(r)
    /\ input[r].scenarios # <<>>
    /\ pc[r] = "done"
    /\ Len(responses[r]) = 1

\* the operations a handler may issue, in order, for an action of the set
HandlerOps(kind) ==
  IF kind = A_navigate THEN {<<"goto">>, <<"goto", "delay">>}
  ELSE IF kind = A_click THEN {<<"$">>, <<"$", "click">>, <<"$", "click", "delay">>}
  ELSE IF kind = A_hover THEN {<<"$">>, <<"$", "hover">>, <<"$", "hover", "delay">>}
  ELSE IF kind = A_fill_input THEN {<<"$">>, <<"$", "type">>}
  ELSE IF kind = A_check_style THEN {<<"$">>, <<"$", "getPropertyValue">>}
  ELSE IF kind = A_check_text THEN {<<"$">>, <<"$", "textContent">>}
  ELSE {<<"$">>}

\* the operations issued while scenario i of run r was handled
OpsOf(r, i) == [k \in 1..Len(CallsOf(r, i)) |-> CallsOf(r, i)[k].op]

\* C6: a result for an action outside the set, letter case ignored, is failed
\* with an error that names the action as written, no call was issued for it
\* and the run goes on; a result for an action that is in the set up to
\* letter case comes from the handler of that action
C6_UnknownActionFails ==
  \A r \in Runs :
    \A i \in 1..Len(results[r]) :
      IF toLowerCase(scenarios[r][i].action) \in KnownActions
        THEN /\ OpsOf(r, i) \in HandlerOps(toLowerCase(scenarios[r][i].action))
             /\ results[r][i].error # <<MsgUnknown(scenarios[r][i].action)>>
        ELSE /\ ~results[r][i].passed
             /\ results[r][i].error # <<>>
             /\ includes(results[r][i].error[1], scenarios[r][i].action)
             /\ startsWith(results[r][i].error[1], <<"U","n","k","n","o","w","n"," ","a","c","t","i","o","n">>)
             /\ CallsOf(r, i) = <<>>
             /\ thrown[r] = <<>>
             /\ Going(r)

\* a run went on after drag_drop with CLICK, which was clicked
C6_Witness ==
  \E r \in Runs :
    /\ Len(results[r]) >= 2
    /\ scenarios[r][1].action = <<"d","r","a","g","_","d","r","o","p">>
    /\ scenarios[r][2].action = <<"C","L","I","C","K">>
    /\ OpsOf(r, 2) = <<"$", "click", "delay">>
    /\ results[r][2].passed

\* the actions whose handler needs its target to be present
NeedsElement == {A_check_style, A_click, A_hover, A_check_text, A_fill_input}

\* C7: the handlers of check_style, click, hover, check_text and fill_input
\* resolve the target before anything else; when it resolves to no element
\* the result is failed with a not-found error naming the target, it reports
\* no actual value, and the resolution is the only call issued for the
\* scenario, whatever expectedResult is
C7_NotFoundStopsHandler ==
  \A r \in Runs :
    \A i \in 1..Len(scenarios[r]) :
      (toLowerCase(scenarios[r][i].action) \in NeedsElement /\ CallsOf(r, i) # <<>>) =>
        /\ CallsOf(r, i)[1].op = "$"
        /\ CallsOf(r, i)[1].arg = scenarios[r][i].target
        /\ CallsOf(r, i)[1].ret = <<"null">> =>
             /\ Len(CallsOf(r, i)) = 1
             /\ Len(results[r]) >= i
             /\ ~results[r][i].passed
             /\ results[r][i].actualValue = <<>>
             /\ results[r][i].error # <<>>
             /\ includes(results[r][i].error[1], scenarios[r][i].target)
             /\ includes(results[r][i].error[1], <<"n","o","t"," ","f","o","u","n","d">>)

\* check_style with an expectation outside its grammar and a target that
\* resolved to no element has the not-found result
C7_Witness ==
  \E r \in Runs :
    /\ Len(results[r]) = 1
    /\ scenarios[r][1].action = A_check_style
    /\ scenarios[r][1].expectedResult \in StyleMalformed
    /\ CallsOf(r, 1)[1].ret = <<"null">>
    /\ results[r][1] = NotFound(scenarios[r][1])

\* C8: the handlers of a run start in input order, handler k only after k - 1
\* results were appended; at most one handler is in progress, the one of the
\* scenario after the last result; every call of a handler is issued before
\* the result of its scenario and after the results of all earlier ones
C8_Sequential ==
  \A r \in Runs :
    /\ \A k \in 1..Len(starts[r]) : starts[r][k] = [idx |-> k, done |-> k - 1]
    /\ Len(starts[r]) - Len(results[r]) \in {0, 1}
    /\ (Len(starts[r]) = Len(results[r])) <=> (cur[r] = 0)
    /\ cur[r] # 0 => cur[r] = Len(results[r]) + 1
    /\ \A k \in 1..Len(calls[r]) :
         calls[r][k].idx >= 1 =>
           /\ calls[r][k].done = calls[r][k].idx - 1
           /\ \A j \in 1..k : calls[r][j].idx <= calls[r][k].idx

\* the third handler is in progress after two handlers that issued calls
C8_Witness ==
  \E r \in Runs :
    /\ cur[r] = 3
    /\ Len(results[r]) = 2
    /\ CallsOf(r, 1) # <<>>
    /\ CallsOf(r, 2) # <<>>
    /\ CallsOf(r, 3) # <<>>

\* C9: a check_style result for "<property> should be <value>", once the
\* target resolved and the computed value was read, passed exactly when the
\* normalized computed value equals the normalized <value>; the property read
\* is <property> and the actual value reported is the trimmed computed value
C9_StylePassIffNormalizedEqual ==
  \A r \in Runs :
    \A i \in 1..Len(results[r]) :
      ( /\ toLowerCase(scenarios[r][i].action) = A_check_style
        /\ Len(CallsOf(r, i)) = 2
        /\ CallsOf(r, i)[1].ret = <<"element">>
        /\ CallsOf(r, i)[2].ret[1] = "value" ) =>
        \A p \in StyleProps, verb \in StyleVerbs, v \in StyleWanted :
          scenarios[r][i].expectedResult = StyleForm(p, verb, v) =>
            /\ CallsOf(r, i)[2].op = "getPropertyValue"
            /\ CallsOf(r, i)[2].arg = p
            /\ results[r][i].passed <=>
                 (normalizeColorValue(CallsOf(r, i)[2].ret[2]) = normalizeColorValue(v))
            /\ results[r][i].actualValue = <<trim(CallsOf(r, i)[2].ret[2])>>

\* background-color computed as rgb(255, 255, 0) was checked against
\* "background-color should be yellow" and passed
C9_Witness ==
  \E r \in Runs :
    /\ Len(results[r]) = 1
    /\ scenarios[r][1].action = A_check_style
    /\ scenarios[r][1].expectedResult = <<"b","a","c","k","g","r","o","u","n","d","-","c","o","l","o","r"," ","s","h","o","u","l","d"," ","b","e"," ","y","e","l","l","o","w">>
    /\ Len(CallsOf(r, 1)) = 2
    /\ CallsOf(r, 1)[2].ret = <<"value", <<"r","g","b","(","2","5","5",","," ","2","5","5",","," ","0",")">>>>
    /\ results[r][1].passed
    /\ results[r][1].actualValue = <<<<"r","g","b","(","2","5","5",","," ","2","5","5",","," ","0",")">>>>

\* C10: a check_style result for an expectation outside the grammar, once the
\* target resolved, is failed with an error that quotes the grammar, the
\* resolution is the only call issued for the scenario, and the run goes on
C10_ParseFailureFails ==
  \A r \in Runs :
    \A i \in 1..Len(results[r]) :
      ( /\ toLowerCase(scenarios[r][i].action) = A_check_style
        /\ scenarios[r][i].expectedResult \in StyleMalformed
        /\ CallsOf(r, i)[1].ret = <<"element">> ) =>
        /\ ~results[r][i].passed
        /\ results[r][i].error # <<>>
        /\ includes(results[r][i].error[1], <<"p","r","o","p","e","r","t","y","-","n","a","m","e"," ","s","h","o","u","l","d"," ","b","e"," ","v","a","l","u","e">>)
        /\ Len(CallsOf(r, i)) = 1
        /\ thrown[r] = <<>>
        /\ Going(r)

\* a run returned after the parse failure of "color should not be red"
C10_Witness ==
  \E r \in Runs :
    /\ returned[r] # <<>>
    /\ Len(returned[r][1]) = 1
    /\ scenarios[r][1].expectedResult = <<"c","o","l","o","r"," ","s","h","o","u","l","d"," ","n","o","t"," ","b","e"," ","r","e","d">>
    /\ CallsOf(r, 1)[1].ret = <<"element">>
    /\ returned[r][1][1] = ParseFailure(scenarios[r][1])

\* expectations that are outside the pattern of the action
Unmatched(kind) ==
  IF kind = A_check_style THEN StyleMalformed
  ELSE IF kind = A_check_text THEN {<<"H","i">>}
  ELSE IF kind = A_fill_input THEN {<<"a","b">>}
  ELSE {<<"/","p">>}

\* the words of the pattern a diagnostic of the action has to echo
PatternWords(kind) ==
  IF kind = A_check_style THEN <<"s","h","o","u","l","d"," ","b","e">>
  ELSE IF kind = A_check_text THEN <<"t","e","x","t"," ","s","h","o","u","l","d">>
  ELSE IF kind = A_fill_input THEN <<"f","i","l","l"," ","w","i","t","h">>
  ELSE <<"n","a","v","i","g","a","t","e"," ","t","o">>

\* C11: for check_style, check_text, fill_input and navigate, a result for an
\* expectation outside the pattern of the action, once the target resolved
\* where there is one, is failed with an error that echoes the pattern
C11_UnmatchedExpectationFails ==
  \A r \in Runs :
    \A i \in 1..Len(results[r]) :
      \A kind \in {A_check_style, A_check_text, A_fill_input, A_navigate} :
        ( /\ toLowerCase(scenarios[r][i].action) = kind
          /\ scenarios[r][i].expectedResult \in Unmatched(kind)
          /\ kind # A_navigate => CallsOf(r, i)[1].ret = <<"element">> ) =>
          /\ ~results[r][i].passed
          /\ results[r][i].error # <<>>
          /\ includes(results[r][i].error[1], PatternWords(kind))

\* fill_input with the expectation "ab", outside its pattern, typed "ab" and passed
C11_Witness ==
  \E r \in Runs :
    /\ Len(results[r]) = 1
    /\ scenarios[r][1].action = A_fill_input
    /\ scenarios[r][1].expectedResult = <<"a","b">>
    /\ OpsOf(r, 1) = <<"$", "type">>
    /\ CallsOf(r, 1)[2].arg = <<"a","b">>
    /\ results[r][1].passed

\* C12: a check_text result for text should contain "V" or text should be "V",
\* once the target resolved and the text content was read, passed exactly
\* when the text content equals V or contains V
C12_TextPassIffContainsLiteral ==
  \A r \in Runs :
    \A i \in 1..Len(results[r]) :
      ( /\ toLowerCase(scenarios[r][i].action) = A_check_text
        /\ Len(CallsOf(r, i)) = 2
        /\ CallsOf(r, i)[1].ret = <<"element">>
        /\ CallsOf(r, i)[2].ret[1] = "value" ) =>
        \A verb \in TextVerbs, v \in TextWanted :
          scenarios[r][i].expectedResult = TextForm(verb, v) =>
            results[r][i].passed <=>
              \/ CallsOf(r, i)[2].ret[2] = v
              \/ includes(CallsOf(r, i)[2].ret[2], v)

\* the text content "Hi there" checked against text should contain "Hi" failed
C12_Witness ==
  \E r \in Runs :
    /\ Len(results[r]) = 1
    /\ scenarios[r][1].action = A_check_text
    /\ scenarios[r][1].expectedResult = <<"t","e","x","t"," ","s","h","o","u","l","d"," ","c","o","n","t","a","i","n"," ","\"","H","i","\"">>
    /\ Len(CallsOf(r, 1)) = 2
    /\ CallsOf(r, 1)[2].ret = <<"value", <<"H","i"," ","t","h","e","r","e">>>>
    /\ ~results[r][1].passed
    /\ includes(results[r][1].error[1], <<"t","o"," ","c","o","n","t","a","i","n"," ","\"","H","i","\"","\"">>)

\* the check_visibility expectations of the requests that hold the keyword
\* "visible" in some letter case; the others lack it
SayVisible == {<<"e","l","e","m","e","n","t"," ","s","h","o","u","l","d"," ","b","e"," ","v","i","s","i","b","l","e">>, <<"E","l","e","m","e","n","t"," ","s","h","o","u","l","d"," ","b","e"," ","V","I","S","I","B","L","E">>}

\* C13: a check_visibility result, once the target resolution was answered,
\* passed exactly when (an element was found) equals (the expectation holds
\* "visible" in any letter case); the resolution is its only call, and an
\* absent element is never reported as element not found
C13_VisibilityPassIffPresenceMatches ==
  \A r \in Runs :
    \A i \in 1..Len(results[r]) :
      ( /\ toLowerCase(scenarios[r][i].action) = A_check_visibility
        /\ CallsOf(r, i)[1].ret \in {<<"element">>, <<"null">>} ) =>
        /\ OpsOf(r, i) = <<"$">>
        /\ results[r][i].passed <=>
             ((CallsOf(r, i)[1].ret = <<"element">>)
                <=> (scenarios[r][i].expectedResult \in SayVisible))
        /\ results[r][i].error # <<>> =>
             ~includes(results[r][i].error[1], <<"n","o","t"," ","f","o","u","n","d">>)

\* an absent element passed against "element should be hidden"
C13_Witness ==
  \E r \in Runs :
    /\ Len(results[r]) = 1
    /\ scenarios[r][1].action = A_check_visibility
    /\ scenarios[r][1].expectedResult = <<"e","l","e","m","e","n","t"," ","s","h","o","u","l","d"," ","b","e"," ","h","i","d","d","e","n">>
    /\ CallsOf(r, 1)[1].ret = <<"null">>
    /\ results[r][1].passed

\* C14: a click or hover result, once the target resolved, is passed with no
\* error when the click or hover completed, whatever was expected, and is
\* failed with the message of the exception when it threw
C14_ClickHoverPassUnlessThrown ==
  \A r \in Runs :
    \A i \in 1..Len(results[r]) :
      ( /\ toLowerCase(scenarios[r][i].action) \in {A_click, A_hover}
        /\ Len(CallsOf(r, i)) >= 2
        /\ CallsOf(r, i)[1].ret = <<"element">> ) =>
        /\ CallsOf(r, i)[2].op =
             (IF toLowerCase(scenarios[r][i].action) = A_click THEN "click" ELSE "hover")
        /\ IF IsThrow(CallsOf(r, i)[2].ret)
             THEN /\ ~results[r][i].passed
                  /\ results[r][i].error = <<CallsOf(r, i)[2].ret[2]>>
             ELSE /\ results[r][i].passed
                  /\ results[r][i].error = <<>>

\* a hover over a present element passed although it was expected hidden
C14_Witness ==
  \E r \in Runs :
    /\ Len(results[r]) = 1
    /\ scenarios[r][1].action = A_hover
    /\ scenarios[r][1].expectedResult = <<"e","l","e","m","e","n","t"," ","s","h","o","u","l","d"," ","b","e"," ","h","i","d","d","e","n">>
    /\ OpsOf(r, 1) = <<"$", "hover", "delay">>
    /\ results[r][1].passed

\* C15: a fill_input result for fill with "V", once the target resolved, comes
\* from exactly one typing, of exactly V, and is passed when the typing did
\* not throw
C15_FillTypesLiteral ==
  \A r \in Runs :
    \A i \in 1..Len(results[r]) :
      ( /\ toLowerCase(scenarios[r][i].action) = A_fill_input
        /\ CallsOf(r, i)[1].ret = <<"element">> ) =>
        \A v \in FillWanted :
          scenarios[r][i].expectedResult = FillForm(v) =>
            /\ OpsOf(r, i) = <<"$", "type">>
            /\ CallsOf(r, i)[2].arg = v
            /\ CallsOf(r, i)[2].ret = Ok => results[r][i].passed

\* fill with "ab" typed ab" into the element, and passed
C15_Witness ==
  \E r \in Runs :
    /\ Len(results[r]) = 1
    /\ scenarios[r][1].action = A_fill_input
    /\ scenarios[r][1].expectedResult = FillForm(<<"a","b">>)
    /\ OpsOf(r, 1) = <<"$", "type">>
    /\ CallsOf(r, 1)[2].arg = <<"a","b","\"">>
    /\ results[r][1].passed

\* C16: a navigate handler resolves no target: its only page call is goto;
\* when goto throws the result is failed with the message of the exception,
\* nothing is thrown by the run, the browser is not closed while the loop
\* goes on, and the returned sequence still has a result for every scenario
C16_NavigateFailureIsLocal ==
  \A r \in Runs :
    \A i \in 1..Len(results[r]) :
      toLowerCase(scenarios[r][i].action) = A_navigate =>
        /\ OpsOf(r, i) \in {<<"goto">>, <<"goto", "delay">>}
        /\ IF IsThrow(CallsOf(r, i)[1].ret)
             THEN /\ ~results[r][i].passed
                  /\ results[r][i].error = <<CallsOf(r, i)[1].ret[2]>>
                  /\ thrown[r] = <<>>
                  /\ Going(r)
                  /\ returned[r] = <<>> => CloseCount(r) = 0
                  /\ returned[r] # <<>> => Len(returned[r][1]) = Len(scenarios[r])
             ELSE results[r][i].passed

\* a navigation failed on a live browser, and the next scenario ran and passed
C16_Witness ==
  \E r \in Runs :
    /\ Len(results[r]) >= 2
    /\ scenarios[r][1].action = A_navigate
    /\ CallsOf(r, 1)[1].ret = Thrown(ErrBrowser)
    /\ ~results[r][1].passed
    /\ CallsOf(r, 2) # <<>>
    /\ results[r][2].passed

\* C17: normalizeColorValue applied to its own result returns that result
C17_NormalizeIdempotent ==
  probe.twice # <<>> => probe.twice = probe.once

\* #ggg went to rgb(NaN, NaN, NaN), and that to rgb(nan, nan, nan)
C17_Witness ==
  /\ probe.color = <<"#","g","g","g">>
  /\ probe.once = <<<<"r","g","b","(","N","a","N",","," ","N","a","N",","," ","N","a","N",")">>>>
  /\ probe.twice = <<<<"r","g","b","(","n","a","n",","," ","n","a","n",","," ","n","a","n",")">>>>

\* "rgb(r, g, b)", the canonical form
CanonicalRgb(r, g, b) ==
  <<"r","g","b","(">> \o NatToStr(r) \o <<",", " ">> \o NatToStr(g) \o <<",", " ">>
    \o NatToStr(b) \o <<")">>

\* C18: every way of writing the colour (r, g, b) - #rrggbb, #rgb, rgb(...)
\* and rgba(...) with or without a blank after the commas, in any letter case
\* and inside white space - normalizes to "rgb(r, g, b)", and so does
\* normalizing that again; each of the 14 names of the table, in any letter
\* case and inside white space, normalizes to the value the table gives it,
\* yellow to "rgb(255, 255, 0)"
C18_RepresentationsAgree ==
  probe.once # <<>> =>
    /\ probe.means # <<>> =>
         /\ probe.color \in Representations(probe.means[1], probe.means[2], probe.means[3])
         /\ probe.once = <<CanonicalRgb(probe.means[1], probe.means[2], probe.means[3])>>
         /\ probe.twice \in {<<>>, probe.once}
    /\ \A e \in colorMap :
         probe.color \in Spellings(e[1]) => probe.once = <<e[2]>>
    /\ probe.color \in Spellings(<<"y","e","l","l","o","w">>) => probe.once = <<CanonicalRgb(255, 255, 0)>>
    /\ Cardinality({e[1] : e \in colorMap}) = 14

\* #FF0 inside white space went to rgb(255, 255, 0)
C18_Witness ==
  /\ probe.means = <<255, 255, 0>>
  /\ probe.color = <<" ", "\t">> \o <<"#","F","F","0">> \o <<" ">>
  /\ probe.once = <<<<"r","g","b","(","2","5","5",","," ","2","5","5",","," ","0",")">>>>

\* values outside the recognized forms, each with its trimmed and lowercased text
Unrecognized ==
  {<<<<"r","g","b","(","1","2","3",")">>, <<"r","g","b","(","1","2","3",")">>>>,
   <<<<"#","g","g","g">>, <<"#","g","g","g">>>>,
   <<<<"#","G","G","G">>, <<"#","g","g","g">>>>,
   <<<<"1","2","p","x">>, <<"1","2","p","x">>>>,
   <<<<"#","1","g","g","1","0","x">>, <<"#","1","g","g","1","0","x">>>>,
   <<<<"r","g","b","(","1",",","2",")">>, <<"r","g","b","(","1",",","2",")">>>>,
   <<<<"#","f","f","f","f">>, <<"#","f","f","f","f">>>>,
   <<<<>>, <<>>>>,
   <<<<"b","o","l","d">>, <<"b","o","l","d">>>>,
   <<<<"#","1","2">>, <<"#","1","2">>>>,
   <<<<" "," ","S","o","l","i","d"," "," ">>, <<"s","o","l","i","d">>>>,
   <<<<"1","p","x"," ","s","o","l","i","d"," ","R","E","D">>, <<"1","p","x"," ","s","o","l","i","d"," ","r","e","d">>>>,
   <<<<"t","r","a","n","s","p","a","r","e","n","t">>, <<"t","r","a","n","s","p","a","r","e","n","t">>>>,
   <<<<"r","g","b","(","1","0","%",","," ","2","0","%",","," ","3","0","%",")">>, <<"r","g","b","(","1","0","%",","," ","2","0","%",","," ","3","0","%",")">>>>,
   <<<<"r","g","b","(","2","5","5"," ","2","5","5"," ","0",")">>, <<"r","g","b","(","2","5","5"," ","2","5","5"," ","0",")">>>>,
   <<<<"r","g","b","(","1",","," ","2",","," ","3">>, <<"r","g","b","(","1",","," ","2",","," ","3">>>>}

\* C19: a value outside the recognized forms is returned trimmed and
\* lowercased, and otherwise as it was
C19_UnrecognizedPassThrough ==
  probe.once # <<>> =>
    \A u \in Unrecognized : probe.color = u[1] => probe.once = <<u[2]>>

\* rgb(123) went to rgb(1, 2, 3)
C19_Witness ==
  /\ probe.color = <<"r","g","b","(","1","2","3",")">>
  /\ probe.once = <<<<"r","g","b","(","1",","," ","2",","," ","3",")">>>>

InProgress(r) ==
  pc[r] \in {"newPage", "setViewport", "goto", "loop", "h_resolve", "h_eval", "h_act"}

\* C21: with requests handled at the same time, every run launches at most
\* one browser and no two runs the same; every call of a run on a browser or
\* a page - set-up, navigation, scenario primitives, close - goes to the
\* browser it launched; a browser is closed only by the run that launched it,
\* and never while that run is in progress
C21_RunsIsolated ==
  \A r \in Runs :
    /\ Cardinality(LaunchedBy(r)) <= 1
    /\ \A q \in Runs \ {r} : LaunchedBy(r) \cap LaunchedBy(q) = {}
    /\ \A k \in 1..Len(calls[r]) :
         calls[r][k].b # 0 => calls[r][k].b \in LaunchedBy(r)
    /\ \A b \in LaunchedBy(r) :
         /\ closeCalls[b] = CloseCount(r)
         /\ closeCalls[b] <= 1
         /\ browserState[b] = "closed" => CloseCount(r) = 1
         /\ InProgress(r) => browserState[b] # "closed" /\ closeCalls[b] = 0

\* one run is over and its browser closed while the other run, in the middle
\* of a click, holds another browser that is open
C21_Witness ==
  \E r, q \in Runs :
    /\ r # q
    /\ pc[r] = "done"
    /\ LaunchedBy(r) # {}
    /\ \A b \in LaunchedBy(r) : browserState[b] = "closed"
    /\ pc[q] = "h_act"
    /\ LaunchedBy(q) # {}
    /\ \A b \in LaunchedBy(q) : browserState[b] = "open"

\* the positions of the close calls in the log of run r
Closes(r) == {k \in 1..Len(calls[r]) : calls[r][k].op = "close"}

\* C22: the close call of a run is the last call the run ever issues - every
\* call before it has settled and no page primitive follows it - and it is
\* issued either with one result appended per scenario or after the fatal
\* error; the handler that awaits runTests goes on (to the report or to the
\* 500 answer) only when the close has settled and the browser is closed
C22_CloseIsLast ==
  \A r \in Runs :
    /\ \A k \in Closes(r) :
         /\ k = Len(calls[r])
         /\ \A j \in 1..(k - 1) : calls[r][j].ret # <<>>
         /\ \/ thrown[r] # <<>>
            \/ /\ returned[r] # <<>>
               /\ calls[r][k].done = Len(scenarios[r])
               /\ Len(results[r]) = Len(scenarios[r])
    /\ \A b \in LaunchedBy(r) :
         /\ browserState[b] = "closed" => \A j \in 1..Len(calls[r]) : calls[r][j].ret # <<>>
         /\ (pc[r] \in {"report", "done"} \/ responses[r] # <<>>) =>
              /\ browserState[b] = "closed"
              /\ \E k \in Closes(r) : calls[r][k].ret = Ok

\* a run of two scenarios whose handlers issued page primitives has been
\* answered with its results, the close being the last call of the log
C22_Witness ==
  \E r \in Runs :
    /\ pc[r] = "done"
    /\ responses[r] # <<>>
    /\ responses[r][1].status = 200
    /\ Len(scenarios[r]) >= 2
    /\ Len(CallsOf(r, 2)) >= 1
    /\ Closes(r) = {Len(calls[r])}
    /\ \A b \in LaunchedBy(r) : browserState[b] = "closed"

\* C23: every result of executeScenario is consistent: a passed result
\* carries no error diagnostic, a failed result carries a diagnostic that is
\* a non-empty string, whichever handler or the catch block produced it
C23_ResultConsistent ==
  \A r \in Runs :
    \A i \in 1..Len(results[r]) :
      LET result == results[r][i]
      IN  /\ result.passed \in BOOLEAN
          /\ result.passed => result.error = <<>>
          /\ ~result.passed => Len(result.error) = 1 /\ Len(result.error[1]) > 0

\* one run holds a passed check with a measured value and no diagnostic, and
\* a failed result that the catch block built from a thrown call
C23_Witness ==
  \E r \in Runs :
    \E i, j \in 1..Len(results[r]) :
      /\ results[r][i].passed
      /\ results[r][i].actualValue # <<>>
      /\ results[r][i].error = <<>>
      /\ ~results[r][j].passed
      /\ \E k \in 1..Len(calls[r]) :
           /\ calls[r][k].idx = j
           /\ calls[r][k].ret # <<>>
           /\ IsThrow(calls[r][k].ret)
           /\ results[r][j].error = <<calls[r][k].ret[2]>>

\* the string s is [A-Z]{2,}-digits from its first to its last character
IsTicketKey(s) ==
  \E d \in 3..(Len(s) - 1) :
    /\ s[d] = "-"
    /\ \A i \in 1..(d - 1) : s[i] \in Range(UpperSeq)
    /\ \A i \in (d + 1)..Len(s) : s[i] \in Range(DigitSeq)

\* the positions of the launch calls, one per invocation of runTests
Invocations(r) == {k \in 1..Len(calls[r]) : calls[r][k].op = "launch"}

\* the gates of the pipeline of request r
Gated(r) ==
  LET body     == input[r]
      answered == responses[r] # <<>>
      status   == responses[r][1].status
      error    == responses[r][1].error[1]
      invalid  == \/ body.ticketId = <<>>
                  \/ body.portalUrl = <<>>
                  \/ extractJiraTicketId(body.ticketId) = <<>>
      sentinel == srv[r].ticket # <<>> /\ srv[r].ticket[1].acceptanceCriteria = NoCriteria
  IN  /\ Len(responses[r]) <= 1
      /\ answered <=> pc[r] = "done"
      /\ Cardinality(Invocations(r)) <= 1
      /\ Invocations(r) # {} =>
           /\ body.ticketId # <<>> /\ body.portalUrl # <<>>
           /\ srv[r].extractedId # <<>>
           /\ IsTicketKey(srv[r].extractedId[1])
           /\ srv[r].ticket # <<>>
           /\ srv[r].ticket[1].acceptanceCriteria # NoCriteria
           /\ srv[r].parsed
           /\ scenarios[r] = body.scenarios
      /\ (pc[r] = "report" \/ srv[r].reported) =>
           /\ Invocations(r) # {}
           /\ returned[r] # <<>>
           /\ thrown[r] = <<>>
      /\ answered =>
           /\ status \in {200, 400, 500}
           /\ status = 400 <=> (invalid \/ sentinel)
           /\ status = 400 => Invocations(r) = {} /\ ~srv[r].parsed /\ ~srv[r].reported
           /\ status = 200 => srv[r].reported /\ returned[r] # <<>>
           /\ status = 500 =>
                /\ ~srv[r].reported
                /\ \/ /\ srv[r].ticket = <<>>
                      /\ error = MsgFetchFailed(srv[r].extractedId[1], ErrJira)
                      /\ Invocations(r) = {}
                   \/ /\ ~srv[r].parsed
                      /\ error = MsgParseFailed(ErrAI)
                      /\ Invocations(r) = {}
                   \/ /\ thrown[r] # <<>>
                      /\ error = thrown[r][1]
                      /\ returned[r] = <<>>
                   \/ /\ returned[r] # <<>>
                      /\ error = MsgReportFailed(ErrAI)
           /\ thrown[r] # <<>> => status = 500

====
